---- MODULE Spec2Model ----
(***************************************************************************)
(* Model of src/MBO-HBO-stroom.py: the helper functions of the Streamlit   *)
(* app that combines a numerator table (teller, ho-instroom) with a        *)
(* denominator table (noemer, mbo-gediplomeerden).                         *)
(*                                                                         *)
(* A table (pandas DataFrame) is a record [kind, cols, rows]: cols is the  *)
(* ordered list of column names, rows the ordered list of rows, each row a *)
(* function from column name to cell.  Cells of source tables are          *)
(* integers; NA stands for a missing cell.  kind is "table" for a          *)
(* DataFrame, "none" for Python's None and "raise" for a call that ended   *)
(* in an exception raised by pandas.                                       *)
(***************************************************************************)
EXTENDS Integers, Sequences, FiniteSets, TLC

VARIABLES
    pc,                    \* "call": inputs chosen, "returned": the function has run
    op,                    \* which function this run calls
    df_teller, df_noemer,  \* combine_teller_noemer: the two input tables
    map_teller, map_noemer,\* label -> column name or None
    geselecteerde_labels,  \* the join labels (join_labels_teller = join_labels_noemer)
    join_cols_teller, join_cols_noemer, \* locals of combine_teller_noemer
    t_grouped, n_grouped,  \* the aggregated tables, after the rename
    generieke_labels,      \* the (generieke, kol_t, kol_n) triples
    df_join,               \* the value combine_teller_noemer returns
    filter_df, kolomnaam,  \* apply_filter: the table and the column
    selectie,              \* what the multiselect returned
    filter_ret,            \* the value apply_filter returns
    suggest_label, suggest_cols, \* suggest_default: its arguments label, cols
    suggest_ret,           \* the value suggest_default returns
    session_state,         \* st.session_state: mapping_teller, mapping_noemer
    widgets,               \* Streamlit's state of the selectboxes, by key
    uploaded,              \* the columns of the table loaded for each role
    key_identity,          \* how the installed Streamlit identifies a keyed widget
    keuze,                 \* the user's latest choice in each selectbox
    default_from,          \* where the last run took each selectbox's default from
    file_teller, file_noemer, \* the uploaded files (lines 287, 292)
    tried,                 \* the flag of the noemer loop (line 309)
    reads_teller, reads_noemer, \* the pd.read_csv calls made, in order
    messages,              \* what st.error / st.info / st.sidebar reported
    rest_run,              \* the block under line 345 was entered
    filter_keuze,          \* the user's selection in each filter of the tabs
    df_kpi, totaal_pct, df_per_jaar, \* KPI tab (lines 505-564)
    df_sec, df_sec_group,  \* sector tab (lines 621-645)
    regroup_label, regroup_value, \* a join label d and a value g of its column
    df_join_sub            \* combine_teller_noemer on the rows with d = g

combineVars == <<df_teller, df_noemer, map_teller, map_noemer,
                 geselecteerde_labels, join_cols_teller, join_cols_noemer,
                 t_grouped, n_grouped, generieke_labels, df_join>>

filterVars == <<filter_df, kolomnaam, selectie, filter_ret>>

suggestVars == <<suggest_label, suggest_cols, suggest_ret>>

sessionVars == <<session_state, widgets, uploaded, key_identity, keuze,
                 default_from>>

loadVars == <<file_teller, file_noemer, tried, reads_teller, reads_noemer,
              messages, rest_run>>

kpiVars == <<filter_keuze, df_kpi, totaal_pct, df_per_jaar, df_sec, df_sec_group>>

regroupVars == <<regroup_label, regroup_value, df_join_sub>>

appVars == <<sessionVars, loadVars, kpiVars, regroupVars>>

vars == <<pc, op, combineVars, filterVars, suggestVars, appVars>>

---------------------------------------------------------------------------
(* Values                                                                  *)

\* Python's None, as a mapping value.
None == "None"

\* pd.NA / NaN: a missing cell.  Real cells are >= 0.
NA == -1

\* `if kol`, `not col_teller`: None and the empty string are falsy.
Truthy(x) == x # None /\ x # ""

\* dict.get(label): None for a label the dict does not hold.
Get(mapping, label) == IF label \in DOMAIN mapping THEN mapping[label] ELSE None

Range(s) == {s[i] : i \in DOMAIN s}

Table(cols, rows) == [kind |-> "table", cols |-> cols, rows |-> rows]

\* `return None`, and a local that was never assigned.
NoTable == [kind |-> "none", cols |-> <<>>, rows |-> <<>>]

\* An exception raised inside pandas leaves the function without a value.
Raised == [kind |-> "raise", cols |-> <<>>, rows |-> <<>>]

IsTable(df) == df.kind = "table"

---------------------------------------------------------------------------
(* pandas operations used by combine_teller_noemer                         *)

HasDuplicates(s) == \E i, j \in DOMAIN s : i # j /\ s[i] = s[j]

\* The key tuple of a row: its cells in the columns `by`, in order.
KeyOf(row, by) == [i \in 1..Len(by) |-> row[by[i]]]

\* Lexicographic order of two key tuples of the same length.
LexLess(x, y) ==
    \E i \in DOMAIN x : x[i] < y[i] /\ \A j \in 1..(i - 1) : x[j] = y[j]

RECURSIVE SortKeys(_)
\* groupby(sort=True): the distinct keys in ascending order.
SortKeys(S) ==
    IF S = {} THEN <<>>
    ELSE LET m == CHOOSE x \in S : \A y \in S \ {x} : LexLess(x, y)
         IN  <<m>> \o SortKeys(S \ {m})

RECURSIVE SumCells(_, _, _)
\* Series.sum(): the sum of the cells of column col over rows[1..n], NA skipped.
SumCells(rows, col, n) ==
    IF n = 0 THEN 0
    ELSE SumCells(rows, col, n - 1)
         + (IF rows[n][col] = NA THEN 0 ELSE rows[n][col])

\* The rows of df whose key (over `by`) is k, in their order.
RowsWithKey(df, by, k) ==
    LET Hit(row) == KeyOf(row, by) = k IN SelectSeq(df.rows, Hit)

\* GroupBySum with .first() where the code has .sum().
GroupByFirst(df, by, col, name) ==
    IF \/ col \notin Range(df.cols)
       \/ \E i \in DOMAIN by : by[i] \notin Range(df.cols)
       \/ HasDuplicates(by)
    THEN Raised
    ELSE
      LET NoNA(row) == \A i \in DOMAIN by : row[by[i]] # NA
          kept == SelectSeq(df.rows, NoNA)
          keys == SortKeys({KeyOf(kept[i], by) : i \in DOMAIN kept})
          Pos(c) == CHOOSE i \in DOMAIN by : by[i] = c
          RowFor(k) ==
            [c \in Range(by) \cup {name} |->
                IF c = name THEN RowsWithKey(df, by, k)[1][col] ELSE k[Pos(c)]]
      IN  Table(by \o <<name>>, [i \in 1..Len(keys) |-> RowFor(keys[i])])

\* df.groupby(by)[col].sum().reset_index(name=name).  groupby drops the rows
\* with a missing key; it raises KeyError for a column the table lacks, and
\* reset_index raises ValueError ("cannot insert ..., already exists") when
\* the same column is listed twice in `by`.
GroupBySum(df, by, col, name) ==
    IF \/ col \notin Range(df.cols)
       \/ \E i \in DOMAIN by : by[i] \notin Range(df.cols)
       \/ HasDuplicates(by)
    THEN Raised
    ELSE
      LET NoNA(row) == \A i \in DOMAIN by : row[by[i]] # NA
          kept == SelectSeq(df.rows, NoNA)
          keys == SortKeys({KeyOf(kept[i], by) : i \in DOMAIN kept})
          Pos(c) == CHOOSE i \in DOMAIN by : by[i] = c
          RowFor(k) ==
            LET grp == RowsWithKey(df, by, k)
            IN  [c \in Range(by) \cup {name} |->
                    IF c = name THEN SumCells(grp, col, Len(grp)) ELSE k[Pos(c)]]
      IN  Table(by \o <<name>>, [i \in 1..Len(keys) |-> RowFor(keys[i])])

\* df.rename(columns={old: new})
Rename(df, old, new) ==
    LET Ren(c) == IF c = old THEN new ELSE c
        newcols == [i \in DOMAIN df.cols |-> Ren(df.cols[i])]
        Back(c) == IF c = new THEN old ELSE c
    IN  Table(newcols,
              [i \in DOMAIN df.rows |->
                  [c \in Range(newcols) |-> df.rows[i][Back(c)]]])

\* The (i, j) index pairs of two row lists, left-major.
IndexPairs(nl, nr) ==
    [p \in 1..(nl * nr) |-> <<((p - 1) \div nr) + 1, ((p - 1) % nr) + 1>>]

\* The rows an inner merge yields: one for every pair of a left and a right
\* row that agree on the `on` columns, in left order.
InnerRows(left, right, on) ==
    LET extra == SelectSeq(right.cols, LAMBDA c : c \notin Range(on))
        Match(p) == \A c \in Range(on) : left.rows[p[1]][c] = right.rows[p[2]][c]
        pairs == SelectSeq(IndexPairs(Len(left.rows), Len(right.rows)), Match)
        Joined(p) ==
            [c \in Range(left.cols) \cup Range(extra) |->
                IF c \in Range(left.cols) THEN left.rows[p[1]][c]
                ELSE right.rows[p[2]][c]]
    IN  [i \in DOMAIN pairs |-> Joined(pairs[i])]

\* pd.merge(..., how="left") with the missing counts filled with 0: a left
\* row without a partner is kept.
MergeLeft(left, right, on) ==
    LET extra == SelectSeq(right.cols, LAMBDA c : c \notin Range(on))
        Match(l, r) == \A c \in Range(on) : l[c] = r[c]
        Lone(l) == \A j \in DOMAIN right.rows : ~Match(l, right.rows[j])
        lone == SelectSeq(left.rows, Lone)
        Filled(l) == [c \in Range(left.cols) \cup Range(extra) |->
                        IF c \in Range(left.cols) THEN l[c] ELSE 0]
    IN  Table(left.cols \o extra,
              InnerRows(left, right, on)
                  \o [i \in DOMAIN lone |-> Filled(lone[i])])

\* pd.merge(left, right, on=on, how="inner"); the columns are left's
\* followed by right's other columns.
MergeInner(left, right, on) ==
    Table(left.cols \o SelectSeq(right.cols, LAMBDA c : c \notin Range(on)),
          InnerRows(left, right, on))

---------------------------------------------------------------------------
(* Exact quotients: the percentage is kept as a fraction in lowest terms.  *)

RECURSIVE GCD(_, _)
GCD(a, b) == IF b = 0 THEN a ELSE GCD(b, a % b)

\* A missing percentage (pd.NA).
PctNA == [na |-> TRUE, num |-> 0, den |-> 1]

\* x / y for y > 0, x >= 0.
Frac(x, y) ==
    LET g == GCD(x, y) IN [na |-> FALSE, num |-> x \div g, den |-> y \div g]

\* teller / noemer * 100 without the replace(0, pd.NA): a zero denominator
\* is reported as 0.
PercentageZero(teller, noemer) ==
    IF noemer = 0 THEN Frac(0, 1) ELSE Frac(100 * teller, noemer)

\* teller / noemer.replace(0, pd.NA) * 100, for one row.
Percentage(teller, noemer) ==
    IF noemer = 0 THEN PctNA ELSE Frac(100 * teller, noemer)

\* df["doorstroompercentage"] = df[t] / df[n].replace(0, pd.NA) * 100
WithPercentage(df) ==
    LET Ext(row) ==
          [c \in Range(df.cols) \cup {"doorstroompercentage"} |->
              IF c = "doorstroompercentage"
              THEN Percentage(row["teller_doorstromers"], row["noemer_gediplomeerden"])
              ELSE row[c]]
    IN  Table(IF "doorstroompercentage" \in Range(df.cols) THEN df.cols
              ELSE df.cols \o <<"doorstroompercentage">>,
              [i \in DOMAIN df.rows |-> Ext(df.rows[i])])

---------------------------------------------------------------------------
(* combine_teller_noemer                                                   *)

\* Lines 201-204 with the test of the noemer column left out.
MetricColumnsOkTellerOnly(dft, dfn, col_teller, col_noemer) ==
    Truthy(col_teller) /\ col_teller \in Range(dft.cols)

\* Lines 201-204: both metric columns are mapped and present.
MetricColumnsOk(dft, dfn, col_teller, col_noemer) ==
    /\ ~(~Truthy(col_teller) \/ ~Truthy(col_noemer))
    /\ ~(col_teller \notin Range(dft.cols) \/ col_noemer \notin Range(dfn.cols))

\* Lines 210-218: the columns of the join labels that are mapped to a
\* column of the table, in the order of the labels; other labels are skipped.
ResolveJoinCols(join_labels, mapping, df) ==
    LET Keep(lbl) == Truthy(Get(mapping, lbl))
                     /\ Get(mapping, lbl) \in Range(df.cols)
        kept == SelectSeq(join_labels, Keep)
    IN  [i \in 1..Len(kept) |-> Get(mapping, kept[i])]

\* Line 221: the join lists are non-empty and of the same length.
JoinColsOk(jct, jcn) == ~(Len(jct) = 0 \/ Len(jct) # Len(jcn))

Min(S) == CHOOSE x \in S : \A y \in S : x <= y

\* Lines 244-250 with the column name of the teller as the generic name.
GeneriekeLabelsKolT(jlt, jln, jct, jcn) ==
    [i \in 1..Min({Len(jlt), Len(jln), Len(jct), Len(jcn)}) |->
        <<jct[i], jct[i], jcn[i]>>]

\* Lines 244-250: zip() of the two label lists and the two column lists,
\* cut to the shortest; the generic name is the teller label at that place.
GeneriekeLabels(jlt, jln, jct, jcn) ==
    [i \in 1..Min({Len(jlt), Len(jln), Len(jct), Len(jcn)}) |->
        <<jlt[i], jct[i], jcn[i]>>]

RECURSIVE RenameAll(_, _, _, _)
\* Lines 253-259: for the first n triples in turn, rename column
\* triple[side] to the generic name when the table has that column.
RenameAll(df, gl, side, n) ==
    IF n = 0 THEN df
    ELSE LET prev == RenameAll(df, gl, side, n - 1)
         IN  IF gl[n][side] \in Range(prev.cols)
             THEN Rename(prev, gl[n][side], gl[n][1])
             ELSE prev

\* Line 262
JoinOn(gl) == [i \in DOMAIN gl |-> gl[i][1]]

\* What a call leaves behind: the returned value and the locals.
Outcome(ret, jct, jcn, tg, ng, gl) ==
    [df_join |-> ret, join_cols_teller |-> jct, join_cols_noemer |-> jcn,
     t_grouped |-> tg, n_grouped |-> ng, generieke_labels |-> gl]

combine_teller_noemer(dft, dfn, mt, mn, jlt, jln) ==
    LET col_teller == Get(mt, "aantal_ho_instromers")
        col_noemer == Get(mn, "aantal_mbo_gediplomeerden")
    IN
    IF ~MetricColumnsOk(dft, dfn, col_teller, col_noemer)
    THEN Outcome(NoTable, <<>>, <<>>, NoTable, NoTable, <<>>)
    ELSE
    LET jct == ResolveJoinCols(jlt, mt, dft)
        jcn == ResolveJoinCols(jln, mn, dfn)
    IN
    IF ~JoinColsOk(jct, jcn)
    THEN Outcome(NoTable, jct, jcn, NoTable, NoTable, <<>>)
    ELSE
    LET tg == GroupBySum(dft, jct, col_teller, "teller_doorstromers")
    IN
    IF ~IsTable(tg) THEN Outcome(Raised, jct, jcn, tg, NoTable, <<>>)
    ELSE
    LET ng == GroupBySum(dfn, jcn, col_noemer, "noemer_gediplomeerden")
    IN
    IF ~IsTable(ng) THEN Outcome(Raised, jct, jcn, tg, ng, <<>>)
    ELSE
    LET gl == GeneriekeLabels(jlt, jln, jct, jcn)
        tr == RenameAll(tg, gl, 2, Len(gl))
        nr == RenameAll(ng, gl, 3, Len(gl))
        joined == MergeInner(tr, nr, JoinOn(gl))
    IN  Outcome(WithPercentage(joined), jct, jcn, tr, nr, gl)

---------------------------------------------------------------------------
(* apply_filter                                                            *)

RECURSIVE SortValues(_)
\* sorted(...): the values of a set in ascending order.
SortValues(S) ==
    IF S = {} THEN <<>>
    ELSE LET m == CHOOSE x \in S : \A y \in S : x <= y
         IN  <<m>> \o SortValues(S \ {m})

\* Line 161: sorted(df[kolomnaam].dropna().unique().tolist())
Unieke(df, kolom) ==
    SortValues({df.rows[i][kolom] : i \in DOMAIN df.rows} \ {NA})

\* df[df[kolom].isin(selectie)]: the rows whose cell is one of the selected
\* values, in their order; a missing cell is in no selection.
RowsIsIn(df, kolom, sel) ==
    LET Keep(row) == \E j \in DOMAIN sel : row[kolom] = sel[j]
    IN  Table(df.cols, SelectSeq(df.rows, Keep))

\* apply_filter without the `if selectie` test: an empty selection
\* excludes every row.
apply_filter_always(df, kolom, sel) ==
    IF kolom \notin Range(df.cols) THEN df ELSE RowsIsIn(df, kolom, sel)

\* Lines 158-170, for the selection sel that the multiselect returns (the
\* multiselect is not reached when the column is absent).
apply_filter(df, kolom, sel) ==
    IF kolom \notin Range(df.cols) THEN df
    ELSE IF sel # <<>> THEN RowsIsIn(df, kolom, sel)
    ELSE df

---------------------------------------------------------------------------
(* suggest_default                                                         *)

UpperCase == "ABCDEFGHIJKLMNOPQRSTUVWXYZ"
LowerCase == "abcdefghijklmnopqrstuvwxyz"

\* One character of str.lower().
LowerChar(c) ==
    IF \E i \in 1..Len(UpperCase) : SubSeq(UpperCase, i, i) = c
    THEN LET i == CHOOSE i \in 1..Len(UpperCase) : SubSeq(UpperCase, i, i) = c
         IN  SubSeq(LowerCase, i, i)
    ELSE c

RECURSIVE Lower(_)
\* str.lower()
Lower(str) ==
    IF Len(str) = 0 THEN ""
    ELSE LowerChar(SubSeq(str, 1, 1)) \o Lower(SubSeq(str, 2, Len(str)))

\* `sub in str`
Contains(sub, str) ==
    \E i \in 1..(Len(str) - Len(sub) + 1) : SubSeq(str, i, i + Len(sub) - 1) = sub

\* str.endswith(suffix)
EndsWith(str, suffix) ==
    /\ Len(suffix) <= Len(str)
    /\ SubSeq(str, Len(str) - Len(suffix) + 1, Len(str)) = suffix

\* str.startswith(prefix)
StartsWith(str, prefix) ==
    /\ Len(prefix) <= Len(str)
    /\ SubSeq(str, 1, Len(prefix)) = prefix

\* Lines 60-76 for one column, c_lower given: whether the loop body returns c.
BodyReturns(lbl, c_lower) ==
    IF Contains(Lower(lbl), c_lower) THEN TRUE
    ELSE IF lbl = "jaar" /\ (Contains("jaar", c_lower) \/ Contains("peil", c_lower))
    THEN TRUE
    ELSE IF EndsWith(lbl, "_instelling") /\ Contains("brin", c_lower) THEN TRUE
    ELSE IF EndsWith(lbl, "_sector")
            /\ (\/ Contains("sector", c_lower)
                \/ Contains("sectorkamer", c_lower)
                \/ Contains("domein", c_lower))
    THEN TRUE
    ELSE IF EndsWith(lbl, "_regio") /\ Contains("regio", c_lower) THEN TRUE
    ELSE IF StartsWith(lbl, "aantal")
            /\ (\/ Contains("aantal", c_lower)
                \/ Contains("stud", c_lower)
                \/ Contains("count", c_lower))
    THEN TRUE
    ELSE FALSE

RECURSIVE SuggestFrom(_, _, _)
\* The loop of lines 59-77 from the i-th column on.
SuggestFrom(lbl, columns, i) ==
    IF i > Len(columns) THEN None
    ELSE IF BodyReturns(lbl, Lower(columns[i])) THEN columns[i]
    ELSE SuggestFrom(lbl, columns, i + 1)

RECURSIVE SuggestFromCaseSensitive(_, _, _)
SuggestFromCaseSensitive(lbl, columns, i) ==
    IF i > Len(columns) THEN None
    ELSE IF BodyReturns(lbl, columns[i]) THEN columns[i]
    ELSE SuggestFromCaseSensitive(lbl, columns, i + 1)

\* suggest_default without c.lower(): the column name is compared as written.
suggest_default_case_sensitive(lbl, columns) ==
    SuggestFromCaseSensitive(lbl, columns, 1)

\* Lines 53-77
suggest_default(lbl, columns) == SuggestFrom(lbl, columns, 1)

---------------------------------------------------------------------------
(* mapping_ui and the session                                              *)

\* A session mapping that holds no label: the {} of line 101.
EmptyMapping == [l \in {} |-> None]

\* st.session_state before the first render: neither mapping key is set.
EmptySession == [k \in {} |-> EmptyMapping]

\* Line 100-103: the dict stored under mapping_key, {} when there is none.
SessionMapping(ss, mapping_key) ==
    IF mapping_key \in DOMAIN ss THEN ss[mapping_key] ELSE EmptyMapping

\* No file is loaded for a role: df is None (lines 296-297).
NoFile == <<"(geen bestand)">>

\* A selectbox that the last run did not render: Streamlit keeps no state
\* for it.
NoWidget == [alive |-> FALSE, options |-> <<>>, index |-> 0, value |-> ""]

\* No selectbox was changed before this run.
NoEvent == [key |-> <<>>, value |-> ""]

\* list.index(x): the 0-based position of the first x.
IndexOf(list, x) == (CHOOSE i \in DOMAIN list :
                        list[i] = x /\ \A j \in 1..(i - 1) : list[j] # x) - 1

\* Lines 113-117: default_index.
DefaultIndex(default_col, available_cols) ==
    IF default_col \in Range(available_cols)
    THEN IndexOf(<<"(geen)">> \o available_cols, default_col)
    ELSE 0

\* A selectbox that forgets nothing: the value stored under the key is
\* returned even when the options were replaced.
SelectboxKeepsValue(w, key, options, index, ev, keyed) ==
    [alive |-> TRUE, options |-> options, index |-> index,
     value |-> IF ev.key = key THEN ev.value
               ELSE IF w.alive THEN w.value
               ELSE options[index + 1]]

\* st.selectbox(..., options, index, key) (lines 118-123, 135-140).  The
\* widget rendered by the previous run is the same widget when its key and
\* options are the same and, unless the installed Streamlit identifies a
\* keyed widget by its key, when its index is the same too.  The same
\* widget returns what the user chose in it, or else its stored value; a
\* new widget returns options[index], and what the user chose in the
\* widget it replaces is dropped.
Selectbox(w, key, options, index, ev, keyed) ==
    LET same == w.alive /\ w.options = options /\ (keyed \/ w.index = index)
    IN  [alive |-> TRUE, options |-> options, index |-> index,
         value |-> IF ~same THEN options[index + 1]
                   ELSE IF ev.key = key THEN ev.value
                   ELSE w.value]

\* What one pass of the loops of mapping_ui hands to the next.
MappingState(mapping, w, dflt) ==
    [mapping |-> mapping, widgets |-> w, default_from |-> dflt]

RECURSIVE MappingLoop(_, _, _, _, _, _, _)
\* Lines 110-124 and 127-141: the two loops have the same body and together
\* visit items in order; i is the next item.  mapping.get(label, ...)
\* returns the stored entry, also a stored None, and the suggestion only
\* for a label the dict does not hold.
MappingLoop(available_cols, mapping_key, items, i, st, ev, keyed) ==
    IF i > Len(items) THEN st
    ELSE
    LET label == items[i]
        key == <<mapping_key, label>>
        stored == label \in DOMAIN st.mapping
        default_col == IF stored THEN st.mapping[label]
                       ELSE suggest_default(label, available_cols)
        default_index == DefaultIndex(default_col, available_cols)
        box == Selectbox(st.widgets[key], key, <<"(geen)">> \o available_cols,
                         default_index, ev, keyed)
        gekozen == box.value
        entry == IF gekozen = "(geen)" THEN None ELSE gekozen
    IN  MappingLoop(available_cols, mapping_key, items, i + 1,
                    MappingState((label :> entry) @@ st.mapping,
                                 [st.widgets EXCEPT ![key] = box],
                                 [st.default_from EXCEPT ![key] =
                                     IF ~stored THEN "suggestion"
                                     ELSE IF Truthy(default_col)
                                             /\ default_col \notin Range(available_cols)
                                          THEN "stale entry"
                                          ELSE "entry"]),
                    ev, keyed)

\* Lines 98-150.  ss is st.session_state, w the widget states this run has
\* rendered so far; the result holds the new session_state as well.
mapping_ui(available_cols, mapping_key, functionele_labels, ss, w, dflt, ev, keyed) ==
    LET mapping == SessionMapping(ss, mapping_key)
        out == MappingLoop(available_cols, mapping_key, functionele_labels, 1,
                           MappingState(mapping, w, dflt), ev, keyed)
    IN  [session_state |-> (mapping_key :> out.mapping) @@ ss,
         widgets |-> out.widgets, default_from |-> out.default_from]

---------------------------------------------------------------------------
(* Loading the two files (lines 296-327)                                   *)

\* file_uploader returned None: nothing is uploaded.
NoUpload == [present |-> FALSE, empty |-> FALSE, decodes |-> {}, parses |-> {}]

\* An uploaded file, by what pd.read_csv makes of it: the encodings its
\* bytes decode under, the delimiters its lines parse under, and whether
\* it holds no line at all.
Upload(empty, decodes, parses) ==
    [present |-> TRUE, empty |-> empty, decodes |-> decodes, parses |-> parses]

\* Line 310 and line 311: the encodings and delimiters of the noemer loop.
Encodings == <<"utf-8", "latin-1", "utf-16", "utf-16le", "utf-16be">>
Delimiters == <<",", ";", "\t">>

\* The (enc, sep) pairs in the order the nested loops of lines 310-311
\* visit them.
Combinations ==
    [n \in 1..(Len(Encodings) * Len(Delimiters)) |->
        <<Encodings[((n - 1) \div Len(Delimiters)) + 1],
          Delimiters[((n - 1) % Len(Delimiters)) + 1]>>]

\* How pd.read_csv(file, sep=sep, encoding=enc) ends: "ok" or the name of
\* the exception it raises.
read_csv(file, sep, enc) ==
    IF file.empty THEN "EmptyDataError"
    ELSE IF enc \notin file.decodes THEN "UnicodeDecodeError"
    ELSE IF sep \notin file.parses THEN "ParserError"
    ELSE "ok"

\* The DataFrame a successful pd.read_csv returns; the model keeps of it
\* the combination it was read with.
Parsed(enc, sep) == Table(<<enc, sep>>, <<>>)

\* What loading one file leaves: the table or None, the reads made, the
\* exception that left the block ("" when none did), the noemer flag.
Loaded(df, reads, exc, flag) == [df |-> df, reads |-> reads, exc |-> exc, tried |-> flag]

\* Lines 299-305.  The handlers of the try are not themselves guarded: an
\* exception of the second read leaves the block, as does one of the first
\* read that is neither a UnicodeDecodeError nor a ParserError.  Line 305
\* names no encoding: pandas reads utf-8.
LoadTeller(file) ==
    IF ~file.present THEN Loaded(NoTable, <<>>, "", FALSE)
    ELSE
    LET first == read_csv(file, ",", "utf-8")
    IN  IF first = "ok"
        THEN Loaded(Parsed("utf-8", ","), <<<<"utf-8", ",">>>>, "", FALSE)
        ELSE IF first = "UnicodeDecodeError"
        THEN LET second == read_csv(file, ",", "latin-1")
                 reads == <<<<"utf-8", ",">>, <<"latin-1", ",">>>>
             IN  IF second = "ok"
                 THEN Loaded(Parsed("latin-1", ","), reads, "", FALSE)
                 ELSE Loaded(NoTable, reads, second, FALSE)
        ELSE IF first = "ParserError"
        THEN LET second == read_csv(file, ";", "utf-8")
                 reads == <<<<"utf-8", ",">>, <<"utf-8", ";">>>>
             IN  IF second = "ok"
                 THEN Loaded(Parsed("utf-8", ";"), reads, "", FALSE)
                 ELSE Loaded(NoTable, reads, second, FALSE)
        ELSE Loaded(NoTable, <<<<"utf-8", ",">>>>, first, FALSE)

RECURSIVE NoemerLoop(_, _, _)
\* Lines 310-320 from the n-th combination on, nothing read successfully
\* so far: a success sets tried, and `if tried: break` then skips every
\* later read; the two caught exceptions continue with the next
\* combination; any other exception leaves the loop.
NoemerLoop(file, n, reads) ==
    IF n > Len(Combinations) THEN Loaded(NoTable, reads, "", FALSE)
    ELSE
    LET enc == Combinations[n][1]
        sep == Combinations[n][2]
        result == read_csv(file, sep, enc)
        made == Append(reads, Combinations[n])
    IN  IF result = "ok" THEN Loaded(Parsed(enc, sep), made, "", TRUE)
        ELSE IF result \in {"UnicodeDecodeError", "ParserError"}
        THEN NoemerLoop(file, n + 1, made)
        ELSE Loaded(NoTable, made, result, FALSE)

\* Lines 307-327.
LoadNoemer(file) ==
    IF ~file.present THEN Loaded(NoTable, <<>>, "", FALSE)
    ELSE NoemerLoop(file, 1, <<>>)

---------------------------------------------------------------------------
(* The KPI tab and the grouped summaries (lines 485-800)                   *)

\* Lines 532-543 and 591-602: the two sums of the filtered table, and
\* teller / noemer * 100 if the noemer sum is not 0, else None.
TotaalPct(df) ==
    LET teller == SumCells(df.rows, "teller_doorstromers", Len(df.rows))
        noemer == SumCells(df.rows, "noemer_gediplomeerden", Len(df.rows))
    IN  IF noemer # 0 THEN Frac(100 * teller, noemer) ELSE PctNA

\* GroupedSummary that leaves the rows with a zero noemer out of the sums.
GroupedSummarySkipZero(df, col) ==
    LET NonZero(row) == row["noemer_gediplomeerden"] # 0
        kept == SelectSeq(df.rows, NonZero)
        keys == SortKeys({KeyOf(kept[i], <<col>>) : i \in DOMAIN kept})
        RowFor(k) ==
          LET grp == RowsWithKey(Table(df.cols, kept), <<col>>, k)
          IN  (col :> k[1])
              @@ ("teller_doorstromers" :> SumCells(grp, "teller_doorstromers", Len(grp)))
              @@ ("noemer_gediplomeerden" :> SumCells(grp, "noemer_gediplomeerden", Len(grp)))
    IN  WithPercentage(
            Table(<<col, "teller_doorstromers", "noemer_gediplomeerden">>,
                  [i \in 1..Len(keys) |-> RowFor(keys[i])]))

\* Lines 553-564, 634-645, 690-701, 769-780:
\* df.groupby(col)[["teller_doorstromers", "noemer_gediplomeerden"]].sum()
\* .reset_index(), then the percentage from the two sums with
\* replace(0, pd.NA).
GroupedSummary(df, col) ==
    LET NoNA(row) == row[col] # NA
        kept == SelectSeq(df.rows, NoNA)
        keys == SortKeys({KeyOf(kept[i], <<col>>) : i \in DOMAIN kept})
        RowFor(k) ==
          LET grp == RowsWithKey(df, <<col>>, k)
          IN  (col :> k[1])
              @@ ("teller_doorstromers" :> SumCells(grp, "teller_doorstromers", Len(grp)))
              @@ ("noemer_gediplomeerden" :> SumCells(grp, "noemer_gediplomeerden", Len(grp)))
    IN  WithPercentage(
            Table(<<col, "teller_doorstromers", "noemer_gediplomeerden">>,
                  [i \in 1..Len(keys) |-> RowFor(keys[i])]))

\* No selection made in any filter of the tabs.
NoFilterKeuze == [kpi_jaar |-> <<>>, kpi_sector |-> <<>>, sec_jaar |-> <<>>]

\* Line 492.
JaarLabelAanwezig(labels, df) ==
    "jaar" \in Range(labels) /\ "jaar" \in Range(df.cols)

\* Lines 505-524: the filters of the KPI tab, one after the other, for the
\* columns the joined table has.
KpiFiltered(df, fk) ==
    apply_filter(apply_filter(df, "jaar", fk.kpi_jaar), "sector_mbo", fk.kpi_sector)

\* Lines 495-609 and 612-645 for a joined table df and the selections fk
\* made in the filters.
RenderedTabs(labels, df, fk) ==
    LET kpi == KpiFiltered(df, fk)
        sec == IF "sector_mbo" \in Range(df.cols)
               THEN apply_filter(df, "jaar", fk.sec_jaar) ELSE NoTable
    IN  [df_kpi |-> kpi,
         totaal_pct |-> TotaalPct(kpi),
         df_per_jaar |-> IF JaarLabelAanwezig(labels, df)
                         THEN GroupedSummary(kpi, "jaar") ELSE NoTable,
         df_sec |-> sec,
         df_sec_group |-> IF IsTable(sec) THEN GroupedSummary(sec, "sector_mbo")
                          ELSE NoTable]

---------------------------------------------------------------------------
(* The program's label vocabularies                                        *)

\* The keys of labels_teller, in order.
labels_teller ==
    <<"jaar", "instelling_mbo", "instelling_ho", "sector_mbo", "sector_ho",
      "regio_mbo", "regio_ho", "niveau_mbo", "aantal_ho_instromers">>

\* The keys of labels_noemer, in order.
labels_noemer ==
    <<"jaar", "instelling_mbo", "sector_mbo", "regio_mbo", "niveau_mbo",
      "aantal_mbo_gediplomeerden">>

mogelijke_join_labels ==
    <<"jaar", "instelling_mbo", "sector_mbo", "regio_mbo", "niveau_mbo">>

---------------------------------------------------------------------------
(* Bounded inputs of combine_teller_noemer                                 *)

\* Rows per input table.
MaxRows == 2

\* Cells of a key column and of a count column.
KeyValues == {1, 2}
CountValues == {0, 1}

\* The columns of the two uploaded files: two key columns and the count.
TellerCols == <<"Peiljaar", "Sector", "Instroom">>
NoemerCols == <<"Jaar", "Domein", "Diplomas">>

\* A column name that neither file has (a mapping left from another file).
StaleCol == "Vervallen"

\* The join labels the inputs select from and map.
ModelledJoinLabels == {"jaar", "sector_mbo"}

RowsOver(cols) ==
    {(cols[1] :> a) @@ (cols[2] :> b) @@ (cols[3] :> m) :
        a \in KeyValues, b \in KeyValues, m \in CountValues}

\* The tables over cols with at most n rows.  combine_teller_noemer sorts
\* the groups, so one row order stands for every permutation of the rows.
TablesOver(cols, n) ==
    LET Ordered(s) == \A i \in 1..(Len(s) - 1) :
                         ~LexLess(KeyOf(s[i + 1], cols), KeyOf(s[i], cols))
    IN  {Table(cols, s) :
            s \in {q \in UNION {[1..k -> RowsOver(cols)] : k \in 0..n} : Ordered(q)}}

\* A mapping as mapping_ui leaves it: every label of the table has an
\* entry; the labels the model does not vary are unset.
MappingOf(labels, jaar, sector, metric_label, metric) ==
    [l \in Range(labels) |->
        IF l = "jaar" THEN jaar
        ELSE IF l = "sector_mbo" THEN sector
        ELSE IF l = metric_label THEN metric
        ELSE None]

\* The selections of the multiselect: the modelled labels, each at most
\* once, in the order they were clicked.
Selections ==
    {s \in UNION {[1..k -> ModelledJoinLabels] : k \in 0..Cardinality(ModelledJoinLabels)} :
        ~HasDuplicates(s)}

\* One pair of files for the inputs that vary the mappings.
ExampleTeller ==
    Table(TellerCols,
          <<("Peiljaar" :> 1) @@ ("Sector" :> 2) @@ ("Instroom" :> 1),
            ("Peiljaar" :> 2) @@ ("Sector" :> 2) @@ ("Instroom" :> 1)>>)

ExampleNoemer ==
    Table(NoemerCols,
          <<("Jaar" :> 1) @@ ("Domein" :> 2) @@ ("Diplomas" :> 1),
            ("Jaar" :> 2) @@ ("Domein" :> 1) @@ ("Diplomas" :> 0)>>)

Input(dft, dfn, mt, mn, sel) ==
    [df_teller |-> dft, df_noemer |-> dfn, map_teller |-> mt,
     map_noemer |-> mn, labels |-> sel]

\* Every mapping of the modelled labels (unset, either key column, a
\* stale column) and of the metric label, every selection, one pair of files.
MappingInputs ==
    LET KeyChoice(cols) == {None, cols[1], cols[2], StaleCol}
        MetricChoice(cols) == {None, cols[3], StaleCol}
    IN  {Input(ExampleTeller, ExampleNoemer,
               MappingOf(labels_teller, tj, ts, "aantal_ho_instromers", tm),
               MappingOf(labels_noemer, nj, ns, "aantal_mbo_gediplomeerden", nm),
               sel) :
            tj \in KeyChoice(TellerCols), ts \in KeyChoice(TellerCols),
            tm \in MetricChoice(TellerCols),
            nj \in KeyChoice(NoemerCols), ns \in KeyChoice(NoemerCols),
            nm \in MetricChoice(NoemerCols), sel \in Selections}

\* The (teller jaar, teller sector, noemer jaar, noemer sector, selection)
\* settings for the inputs that vary the files: both labels mapped alike and
\* selected in either order; one label unmapped on both sides; a different
\* label unmapped on each side.
DataSettings ==
    {<<"Peiljaar", "Sector", "Jaar", "Domein", <<"jaar", "sector_mbo">>>>,
     <<"Peiljaar", "Sector", "Jaar", "Domein", <<"sector_mbo", "jaar">>>>,
     <<None, "Sector", None, "Domein", <<"jaar", "sector_mbo">>>>,
     <<"Peiljaar", None, None, "Domein", <<"jaar", "sector_mbo">>>>}

\* Every pair of files of at most MaxRows rows, under each of DataSettings.
DataInputs ==
    {Input(dft, dfn,
           MappingOf(labels_teller, c[1], c[2], "aantal_ho_instromers", TellerCols[3]),
           MappingOf(labels_noemer, c[3], c[4], "aantal_mbo_gediplomeerden", NoemerCols[3]),
           c[5]) :
        dft \in TablesOver(TellerCols, MaxRows),
        dfn \in TablesOver(NoemerCols, MaxRows),
        c \in DataSettings}

CombineInputs == MappingInputs \cup DataInputs

---------------------------------------------------------------------------
(* Bounded inputs of apply_filter and suggest_default                      *)

\* Rows of the table handed to apply_filter.
MaxFilterRows == 3

\* Columns in the list handed to suggest_default.
MaxCols == 2

\* A joined table cut to one key column and one count; a key cell may be
\* missing.
FilterCols == <<"jaar", "teller_doorstromers">>

FilterTables ==
    LET rows == {("jaar" :> j) @@ ("teller_doorstromers" :> t) :
                    j \in {NA} \cup KeyValues, t \in CountValues}
    IN  {Table(FilterCols, r) : r \in UNION {[1..k -> rows] : k \in 0..MaxFilterRows}}

\* The column asked for: one the table has and one it lacks.
FilterColumns == {"jaar", "sector_mbo"}

\* What a multiselect over the options can return: any of them, each at
\* most once, in the order they were clicked.
SelectionsFrom(options) ==
    {q \in UNION {[1..k -> Range(options)] : k \in 0..Len(options)} :
        ~HasDuplicates(q)}

\* Labels handed to suggest_default: those of the two mapping dicts, and
\* three more that end the way the keyword rules ask.
SuggestLabels ==
    Range(labels_teller) \cup Range(labels_noemer)
        \cup {"herkomst_instelling", "opleiding_sector", "woon_regio"}

\* Column names of an uploaded file.
ColumnPool ==
    {"Peiljaar", "JAAR", "BRIN", "Sectorkamer", "Domein", "REGIO_MBO",
     "Aantal", "Studenten", "CountTotal", "Naam"}

\* df.columns.tolist(): at most MaxCols different names.
ColumnLists ==
    {q \in UNION {[1..k -> ColumnPool] : k \in 0..MaxCols} : ~HasDuplicates(q)}

---------------------------------------------------------------------------
(* Bounded inputs of the session: files, labels, widgets                   *)

\* The labels handed to mapping_ui as functionele_labels: the first and
\* the last of labels_teller, and the last of labels_noemer.
SessionLabelsTeller == <<"jaar", "aantal_ho_instromers">>
SessionLabelsNoemer == <<"aantal_mbo_gediplomeerden">>

SessionLabels(mapping_key) ==
    IF mapping_key = "mapping_teller" THEN SessionLabelsTeller
    ELSE SessionLabelsNoemer

MappingKeys == {"mapping_teller", "mapping_noemer"}

\* The role whose table a mapping key belongs to.
RoleOf(mapping_key) == IF mapping_key = "mapping_teller" THEN "teller" ELSE "noemer"

\* The selectbox keys f"{mapping_key}_{label}".
WidgetKeys ==
    UNION {{<<k, l>> : l \in Range(SessionLabels(k))} : k \in MappingKeys}

\* No selectbox has been rendered.
NotRendered == [k \in WidgetKeys |-> "not rendered"]

\* df.columns.tolist() of the files a user can upload for a role: the
\* second teller file has no column of the first one's year name.
SessionFiles(role) ==
    IF role = "teller" THEN {<<"Peiljaar", "Aantal">>, <<"Cohort", "Aantal">>}
    ELSE {<<"Jaar", "Diplomas">>}

\* The files a user can upload: an empty file, and every file by the
\* encodings it decodes under and the delimiters it parses under.  Any
\* byte sequence decodes under latin-1.
Uploads ==
    {NoUpload, Upload(TRUE, {}, {})}
        \cup {Upload(FALSE, d \cup {"latin-1"}, p) :
                 d \in SUBSET (Range(Encodings) \ {"latin-1"}),
                 p \in SUBSET Range(Delimiters)}

\* The mappings that map both join labels and the metric of each file.
AlignedTeller ==
    MappingOf(labels_teller, TellerCols[1], TellerCols[2],
              "aantal_ho_instromers", TellerCols[3])
AlignedNoemer ==
    MappingOf(labels_noemer, NoemerCols[1], NoemerCols[2],
              "aantal_mbo_gediplomeerden", NoemerCols[3])

\* The selections of join labels the tabs are rendered for.
KpiSelections == {<<"jaar", "sector_mbo">>, <<"jaar">>, <<"sector_mbo">>}

\* The joined tables combine_teller_noemer returns for the files of at
\* most MaxRows rows under the selection sel.
KpiJoins(sel) ==
    {combine_teller_noemer(dft, dfn, AlignedTeller, AlignedNoemer, sel, sel).df_join :
        dft \in TablesOver(TellerCols, MaxRows),
        dfn \in TablesOver(NoemerCols, MaxRows)}

\* What a multiselect returns when the order of the clicks is left out:
\* the options chosen, in the order of the options.
ChosenFrom(options) ==
    {SortValues(c) : c \in SUBSET Range(options)}

---------------------------------------------------------------------------
(* Bounded inputs of the regrouping of a joined table                      *)

\* Two files with three key columns and the count.
RegroupTellerCols == <<"Peiljaar", "Sector", "Niveau", "Instroom">>
RegroupNoemerCols == <<"Jaar", "Domein", "Niveau", "Diplomas">>

RegroupJoinLabels == <<"jaar", "sector_mbo", "niveau_mbo">>

\* The rows of such a file; every count is 1, so a sum counts rows.
RegroupRows(cols) ==
    {(cols[1] :> a) @@ (cols[2] :> b) @@ (cols[3] :> c) @@ (cols[4] :> 1) :
        a \in KeyValues, b \in KeyValues, c \in KeyValues}

\* The tables over cols with at most n rows, one row order for every
\* permutation of the rows.
RegroupTables(cols, n) ==
    LET Ordered(s) == \A i \in 1..(Len(s) - 1) :
                         ~LexLess(KeyOf(s[i + 1], cols), KeyOf(s[i], cols))
    IN  {Table(cols, s) :
            s \in {q \in UNION {[1..k -> RegroupRows(cols)] : k \in 0..n} : Ordered(q)}}

\* A mapping as mapping_ui leaves it, with the three join labels and the
\* metric label set as given.
RegroupMapping(labels, jaar, sector, niveau, metric_label, metric) ==
    [l \in Range(labels) |->
        IF l = "jaar" THEN jaar
        ELSE IF l = "sector_mbo" THEN sector
        ELSE IF l = "niveau_mbo" THEN niveau
        ELSE IF l = metric_label THEN metric
        ELSE None]

\* What the user set "jaar" to in both mapping blocks: the year column of
\* each file, or "(geen)".
RegroupJaarSettings == {<<"Peiljaar", "Jaar">>, <<None, None>>}

\* df[df[col] == g]: the rows whose cell in col is g.
Restrict(df, col, g) ==
    LET Hit(row) == row[col] = g IN Table(df.cols, SelectSeq(df.rows, Hit))

---------------------------------------------------------------------------
(* The state machine: one call of one of the helper functions.             *)

\* The variables of a function that this run does not call.
CombineIdle ==
    /\ df_teller = NoTable /\ df_noemer = NoTable
    /\ map_teller = MappingOf(labels_teller, None, None, "aantal_ho_instromers", None)
    /\ map_noemer = MappingOf(labels_noemer, None, None, "aantal_mbo_gediplomeerden", None)
    /\ geselecteerde_labels = <<>>
    /\ join_cols_teller = <<>> /\ join_cols_noemer = <<>>
    /\ t_grouped = NoTable /\ n_grouped = NoTable
    /\ generieke_labels = <<>>
    /\ df_join = NoTable

FilterIdle ==
    /\ filter_df = NoTable /\ kolomnaam = "" /\ selectie = <<>>
    /\ filter_ret = NoTable

SuggestIdle == suggest_label = "" /\ suggest_cols = <<>> /\ suggest_ret = None

LoadIdle ==
    /\ file_teller = NoUpload /\ file_noemer = NoUpload
    /\ tried = FALSE
    /\ reads_teller = <<>> /\ reads_noemer = <<>>
    /\ messages = {}
    /\ rest_run = FALSE

KpiIdle ==
    /\ filter_keuze = NoFilterKeuze
    /\ df_kpi = NoTable
    /\ totaal_pct = PctNA
    /\ df_per_jaar = NoTable
    /\ df_sec = NoTable
    /\ df_sec_group = NoTable

RegroupIdle ==
    /\ regroup_label = "" /\ regroup_value = 0 /\ df_join_sub = NoTable

SessionIdle ==
    /\ session_state = EmptySession
    /\ widgets = [k \in WidgetKeys |-> NoWidget]
    /\ uploaded = [r \in {"teller", "noemer"} |-> NoFile]
    /\ key_identity = FALSE
    /\ keuze = [k \in WidgetKeys |-> ""]
    /\ default_from = NotRendered

\* The variables of the session, of loading, of the tabs and of regrouping,
\* in a run that is one call of a helper function.
AppIdle == SessionIdle /\ LoadIdle /\ KpiIdle /\ RegroupIdle

InitCombine ==
    /\ pc = "call"
    /\ op = "combine"
    /\ \E in \in CombineInputs :
          /\ df_teller = in.df_teller
          /\ df_noemer = in.df_noemer
          /\ map_teller = in.map_teller
          /\ map_noemer = in.map_noemer
          /\ geselecteerde_labels = in.labels
    /\ join_cols_teller = <<>>
    /\ join_cols_noemer = <<>>
    /\ t_grouped = NoTable
    /\ n_grouped = NoTable
    /\ generieke_labels = <<>>
    /\ df_join = NoTable
    /\ FilterIdle
    /\ SuggestIdle
    /\ AppIdle

\* Lines 476-483: df_join = combine_teller_noemer(...), with the same
\* selection as join_labels_teller and join_labels_noemer (lines 457-458).
Combine ==
    /\ pc = "call"
    /\ op = "combine"
    /\ \E out \in {combine_teller_noemer(df_teller, df_noemer, map_teller,
                                        map_noemer, geselecteerde_labels,
                                        geselecteerde_labels)} :
           /\ df_join' = out.df_join
           /\ join_cols_teller' = out.join_cols_teller
           /\ join_cols_noemer' = out.join_cols_noemer
           /\ t_grouped' = out.t_grouped
           /\ n_grouped' = out.n_grouped
           /\ generieke_labels' = out.generieke_labels
    /\ pc' = "returned"
    /\ UNCHANGED <<op, df_teller, df_noemer, map_teller, map_noemer,
                   geselecteerde_labels, filterVars, suggestVars, appVars>>

NextCombine == Combine

SpecCombine == InitCombine /\ [][NextCombine]_vars

InitFilter ==
    /\ pc = "call"
    /\ op = "filter"
    /\ filter_df \in FilterTables
    /\ kolomnaam \in FilterColumns
    /\ selectie = <<>>
    /\ filter_ret = NoTable
    /\ CombineIdle
    /\ SuggestIdle
    /\ AppIdle

\* One call of apply_filter (lines 519, 626, 683, 762): the user's choice in
\* the multiselect is any selection of the options; without the column the
\* multiselect is not shown.
ApplyFilter ==
    /\ pc = "call"
    /\ op = "filter"
    /\ IF kolomnaam \notin Range(filter_df.cols)
       THEN /\ selectie' = <<>>
            /\ filter_ret' = apply_filter(filter_df, kolomnaam, <<>>)
       ELSE \E sel \in SelectionsFrom(Unieke(filter_df, kolomnaam)) :
                /\ selectie' = sel
                /\ filter_ret' = apply_filter(filter_df, kolomnaam, sel)
    /\ pc' = "returned"
    /\ UNCHANGED <<op, filter_df, kolomnaam, combineVars, suggestVars, appVars>>

NextFilter == ApplyFilter

SpecFilter == InitFilter /\ [][NextFilter]_vars

InitSuggest ==
    /\ pc = "call"
    /\ op = "suggest"
    /\ suggest_label \in SuggestLabels
    /\ suggest_cols \in ColumnLists
    /\ suggest_ret = None
    /\ CombineIdle
    /\ FilterIdle
    /\ AppIdle

\* One call of suggest_default (lines 112, 129).
SuggestDefault ==
    /\ pc = "call"
    /\ op = "suggest"
    /\ suggest_ret' = suggest_default(suggest_label, suggest_cols)
    /\ pc' = "returned"
    /\ UNCHANGED <<op, suggest_label, suggest_cols, combineVars, filterVars, appVars>>

NextSuggest == SuggestDefault

SpecSuggest == InitSuggest /\ [][NextSuggest]_vars

---------------------------------------------------------------------------
(* The state machine of the session: each user interaction reruns the      *)
(* script from the top (lines 296-422).                                    *)

\* Lines 345-422 of one script run: mapping_ui for teller and for noemer
\* when both tables are loaded.  Streamlit drops the state of a widget
\* that a run does not render.
ScriptRun(up, ss, w, ev, keyed) ==
    IF up["teller"] # NoFile /\ up["noemer"] # NoFile
    THEN LET t == mapping_ui(up["teller"], "mapping_teller", SessionLabelsTeller,
                             ss, w, NotRendered, ev, keyed)
         IN  mapping_ui(up["noemer"], "mapping_noemer", SessionLabelsNoemer,
                        t.session_state, t.widgets, t.default_from, ev, keyed)
    ELSE [session_state |-> ss, widgets |-> [k \in WidgetKeys |-> NoWidget],
          default_from |-> NotRendered]

\* The session starts with no file and nothing stored; the installed
\* Streamlit identifies a keyed widget either by all its arguments or by
\* its key and options.
InitSession ==
    /\ pc = "rendered"
    /\ op = "session"
    /\ session_state = EmptySession
    /\ widgets = [k \in WidgetKeys |-> NoWidget]
    /\ uploaded = [r \in {"teller", "noemer"} |-> NoFile]
    /\ key_identity \in BOOLEAN
    /\ keuze = [k \in WidgetKeys |-> ""]
    /\ default_from = NotRendered
    /\ CombineIdle /\ FilterIdle /\ SuggestIdle
    /\ LoadIdle /\ KpiIdle /\ RegroupIdle

\* The user uploads, replaces or removes the file of one role; the script
\* reruns.
UserUploads ==
    /\ op = "session"
    /\ \E role \in {"teller", "noemer"} :
       \E f \in (SessionFiles(role) \cup {NoFile}) \ {uploaded[role]} :
       \E out \in {ScriptRun([uploaded EXCEPT ![role] = f], session_state,
                             widgets, NoEvent, key_identity)} :
           /\ uploaded' = [uploaded EXCEPT ![role] = f]
           /\ session_state' = out.session_state
           /\ widgets' = out.widgets
           /\ default_from' = out.default_from
           /\ keuze' = [k \in WidgetKeys |->
                           IF RoleOf(k[1]) = role THEN "" ELSE keuze[k]]
    /\ UNCHANGED <<pc, op, key_identity, combineVars, filterVars, suggestVars,
                   loadVars, kpiVars, regroupVars>>

\* The user picks another option in one selectbox; the script reruns.
UserChooses ==
    /\ op = "session"
    /\ \E key \in WidgetKeys :
          /\ widgets[key].alive
          /\ \E v \in Range(widgets[key].options) \ {widgets[key].value} :
             \E out \in {ScriptRun(uploaded, session_state, widgets,
                                   [key |-> key, value |-> v], key_identity)} :
                 /\ session_state' = out.session_state
                 /\ widgets' = out.widgets
                 /\ default_from' = out.default_from
                 /\ keuze' = [keuze EXCEPT ![key] = v]
    /\ UNCHANGED <<pc, op, uploaded, key_identity, combineVars, filterVars,
                   suggestVars, loadVars, kpiVars, regroupVars>>

\* The user changes a widget other than the selectboxes; the script reruns.
UserReruns ==
    /\ op = "session"
    /\ \E out \in {ScriptRun(uploaded, session_state, widgets, NoEvent,
                             key_identity)} :
           /\ session_state' = out.session_state
           /\ widgets' = out.widgets
           /\ default_from' = out.default_from
    /\ UNCHANGED <<pc, op, uploaded, key_identity, keuze, combineVars,
                   filterVars, suggestVars, loadVars, kpiVars, regroupVars>>

NextSession == UserUploads \/ UserChooses \/ UserReruns

SpecSession == InitSession /\ [][NextSession]_vars

---------------------------------------------------------------------------
(* The state machine of one script run over the loading steps              *)
(* (lines 296-345).                                                        *)

InitLoad ==
    /\ pc = "load_teller"
    /\ op = "load"
    /\ file_teller \in Uploads
    /\ file_noemer \in Uploads
    /\ tried = FALSE
    /\ reads_teller = <<>> /\ reads_noemer = <<>>
    /\ messages = {}
    /\ rest_run = FALSE
    /\ CombineIdle /\ FilterIdle /\ SuggestIdle
    /\ SessionIdle /\ KpiIdle /\ RegroupIdle

\* Lines 299-305.  An exception that leaves the block ends the script run.
ReadTeller ==
    /\ pc = "load_teller"
    /\ op = "load"
    /\ \E out \in {LoadTeller(file_teller)} :
           /\ df_teller' = out.df
           /\ reads_teller' = out.reads
           /\ pc' = IF out.exc = "" THEN "load_noemer" ELSE "exception"
    /\ UNCHANGED <<op, df_noemer, map_teller, map_noemer, geselecteerde_labels,
                   join_cols_teller, join_cols_noemer, t_grouped, n_grouped,
                   generieke_labels, df_join, file_teller, file_noemer, tried,
                   reads_noemer, messages, rest_run, filterVars, suggestVars,
                   sessionVars, kpiVars, regroupVars>>

\* Lines 307-327, with the st.error of line 323 when nothing was read.
ReadNoemer ==
    /\ pc = "load_noemer"
    /\ op = "load"
    /\ \E out \in {LoadNoemer(file_noemer)} :
           /\ df_noemer' = out.df
           /\ reads_noemer' = out.reads
           /\ tried' = out.tried
           /\ messages' = IF file_noemer.present /\ out.exc = "" /\ ~out.tried
                          THEN messages \cup {"error: noemerbestand niet ingelezen"}
                          ELSE messages
           /\ pc' = IF out.exc = "" THEN "status" ELSE "exception"
    /\ UNCHANGED <<op, df_teller, map_teller, map_noemer, geselecteerde_labels,
                   join_cols_teller, join_cols_noemer, t_grouped, n_grouped,
                   generieke_labels, df_join, file_teller, file_noemer,
                   reads_teller, rest_run, filterVars, suggestVars,
                   sessionVars, kpiVars, regroupVars>>

\* Lines 331-345: the status message, and whether the rest of the script
\* (inspection, mapping_ui, combine_teller_noemer, tabs) runs.
LoadStatus ==
    /\ pc = "status"
    /\ op = "load"
    /\ messages' = messages \cup
          {IF IsTable(df_teller) /\ IsTable(df_noemer) THEN "success: beide ingelezen"
           ELSE IF IsTable(df_teller) THEN "info: upload ook de noemer"
           ELSE IF IsTable(df_noemer) THEN "info: upload ook de teller"
           ELSE "info: upload beide bestanden"}
    /\ rest_run' = (IsTable(df_teller) /\ IsTable(df_noemer))
    /\ pc' = "done"
    /\ UNCHANGED <<op, combineVars, file_teller, file_noemer, tried,
                   reads_teller, reads_noemer, filterVars, suggestVars,
                   sessionVars, kpiVars, regroupVars>>

NextLoad == ReadTeller \/ ReadNoemer \/ LoadStatus

SpecLoad == InitLoad /\ [][NextLoad]_vars

---------------------------------------------------------------------------
(* The state machine of the tabs: the script from line 485 on, for a       *)
(* joined table that combine_teller_noemer returned.                       *)

InitKpi ==
    /\ pc = "call"
    /\ op = "kpi"
    /\ geselecteerde_labels \in KpiSelections
    /\ df_join \in KpiJoins(geselecteerde_labels)
    /\ df_teller = NoTable /\ df_noemer = NoTable
    /\ map_teller = AlignedTeller /\ map_noemer = AlignedNoemer
    /\ join_cols_teller = <<>> /\ join_cols_noemer = <<>>
    /\ t_grouped = NoTable /\ n_grouped = NoTable
    /\ generieke_labels = <<>>
    /\ KpiIdle
    /\ FilterIdle /\ SuggestIdle /\ SessionIdle /\ LoadIdle /\ RegroupIdle

\* Lines 495-665: the KPI tab and the sector tab, with what the user has
\* selected in the filters; a filter offers the values of the rows the
\* filters before it have kept.
RenderTabs ==
    /\ pc = "call"
    /\ op = "kpi"
    /\ IsTable(df_join)
    /\ \E kj \in (IF "jaar" \in Range(df_join.cols)
                  THEN ChosenFrom(Unieke(df_join, "jaar")) ELSE {<<>>}) :
       \E ks \in (IF "sector_mbo" \in Range(df_join.cols)
                  THEN ChosenFrom(Unieke(apply_filter(df_join, "jaar", kj), "sector_mbo"))
                  ELSE {<<>>}) :
       \E sj \in (IF {"jaar", "sector_mbo"} \subseteq Range(df_join.cols)
                  THEN ChosenFrom(Unieke(df_join, "jaar")) ELSE {<<>>}) :
       \E fk \in {[kpi_jaar |-> kj, kpi_sector |-> ks, sec_jaar |-> sj]} :
       \E out \in {RenderedTabs(geselecteerde_labels, df_join, fk)} :
           /\ filter_keuze' = fk
           /\ df_kpi' = out.df_kpi
           /\ totaal_pct' = out.totaal_pct
           /\ df_per_jaar' = out.df_per_jaar
           /\ df_sec' = out.df_sec
           /\ df_sec_group' = out.df_sec_group
    /\ pc' = "returned"
    /\ UNCHANGED <<op, combineVars, filterVars, suggestVars, sessionVars,
                   loadVars, regroupVars>>

NextKpi == RenderTabs

SpecKpi == InitKpi /\ [][NextKpi]_vars

---------------------------------------------------------------------------
(* The state machine of regrouping: combine_teller_noemer on two files and *)
(* on their rows of one value of one join label.                           *)

InitRegroup ==
    /\ pc = "call"
    /\ op = "regroup"
    /\ df_teller \in RegroupTables(RegroupTellerCols, MaxRows)
    /\ df_noemer \in RegroupTables(RegroupNoemerCols, MaxRows)
    /\ \E j \in RegroupJaarSettings :
          /\ map_teller = RegroupMapping(labels_teller, j[1], "Sector", "Niveau",
                                         "aantal_ho_instromers", "Instroom")
          /\ map_noemer = RegroupMapping(labels_noemer, j[2], "Domein", "Niveau",
                                         "aantal_mbo_gediplomeerden", "Diplomas")
    /\ geselecteerde_labels = RegroupJoinLabels
    /\ regroup_label \in {l \in Range(RegroupJoinLabels) :
                             Truthy(map_teller[l]) /\ Truthy(map_noemer[l])}
    /\ regroup_value \in KeyValues
    /\ df_join_sub = NoTable
    /\ join_cols_teller = <<>> /\ join_cols_noemer = <<>>
    /\ t_grouped = NoTable /\ n_grouped = NoTable
    /\ generieke_labels = <<>>
    /\ df_join = NoTable
    /\ FilterIdle /\ SuggestIdle /\ SessionIdle /\ LoadIdle /\ KpiIdle

\* combine_teller_noemer (lines 476-483) on the two files, and again on
\* the rows of each file whose column mapped to regroup_label holds
\* regroup_value.
Regroup ==
    /\ pc = "call"
    /\ op = "regroup"
    /\ \E out \in {combine_teller_noemer(df_teller, df_noemer, map_teller,
                                        map_noemer, geselecteerde_labels,
                                        geselecteerde_labels)} :
           /\ df_join' = out.df_join
           /\ join_cols_teller' = out.join_cols_teller
           /\ join_cols_noemer' = out.join_cols_noemer
           /\ t_grouped' = out.t_grouped
           /\ n_grouped' = out.n_grouped
           /\ generieke_labels' = out.generieke_labels
    /\ df_join_sub' =
          combine_teller_noemer(
              Restrict(df_teller, map_teller[regroup_label], regroup_value),
              Restrict(df_noemer, map_noemer[regroup_label], regroup_value),
              map_teller, map_noemer, geselecteerde_labels,
              geselecteerde_labels).df_join
    /\ pc' = "returned"
    /\ UNCHANGED <<op, df_teller, df_noemer, map_teller, map_noemer,
                   geselecteerde_labels, regroup_label, regroup_value,
                   filterVars, suggestVars, sessionVars, loadVars, kpiVars>>

NextRegroup == Regroup

SpecRegroup == InitRegroup /\ [][NextRegroup]_vars

---------------------------------------------------------------------------
(* Every run of the model.                                                 *)

\* One call of one of the helper functions, a session, the loading steps
\* of one script run, the tabs of one script run, or a regrouping.
Init ==
    \/ InitCombine \/ InitFilter \/ InitSuggest
    \/ InitSession \/ InitLoad \/ InitKpi \/ InitRegroup

Next ==
    \/ Combine \/ ApplyFilter \/ SuggestDefault
    \/ UserUploads \/ UserChooses \/ UserReruns
    \/ ReadTeller \/ ReadNoemer \/ LoadStatus
    \/ RenderTabs
    \/ Regroup

Spec == Init /\ [][Next]_vars

---------------------------------------------------------------------------
(* Properties of combine_teller_noemer                                     *)

CombineReturned == pc = "returned" /\ op = "combine"

\* Label l is mapped to a column that the table has.
MappedIn(mapping, l, df) ==
    /\ l \in DOMAIN mapping
    /\ mapping[l] \notin {None, ""}
    /\ \E i \in DOMAIN df.cols : df.cols[i] = mapping[l]

\* Both metric labels are mapped to a column of their table.
MetricsMapped ==
    /\ MappedIn(map_teller, "aantal_ho_instromers", df_teller)
    /\ MappedIn(map_noemer, "aantal_mbo_gediplomeerden", df_noemer)

SelectedLabels == {geselecteerde_labels[i] : i \in DOMAIN geselecteerde_labels}

\* The columns of a joined table other than the two counts and the percentage.
KeyColumns(df) ==
    {df.cols[i] : i \in DOMAIN df.cols}
        \ {"teller_doorstromers", "noemer_gediplomeerden", "doorstroompercentage"}

\* The number of selected labels that resolve to a column of the table.
ResolvedCount(mapping, df) ==
    Cardinality({i \in DOMAIN geselecteerde_labels :
                    MappedIn(mapping, geselecteerde_labels[i], df)})

\* The key combinations of the source rows of a table over its resolved columns.
SourceKeys(df, by) == {KeyOf(df.rows[i], by) : i \in DOMAIN df.rows}

\* The key combination of a joined row: its cells in the join-on columns.
JoinedKey(row) == KeyOf(row, JoinOn(generieke_labels))

SharedKeys ==
    SourceKeys(df_teller, join_cols_teller) \cap SourceKeys(df_noemer, join_cols_noemer)

RECURSIVE SumOfRows(_, _, _)
\* The sum of column col over the rows of df with index in I.
SumOfRows(df, col, I) ==
    IF I = {} THEN 0
    ELSE LET i == CHOOSE x \in I : TRUE
         IN  df.rows[i][col] + SumOfRows(df, col, I \ {i})

\* The source rows of df whose cells in `by` are the key combination k.
RowsOfKey(df, by, k) == {i \in DOMAIN df.rows : KeyOf(df.rows[i], by) = k}

\* C1: if a selected join label is mapped to a present column on one side
\* but not on the other, combine_teller_noemer returns None.
C1_OneSidedLabelReturnsNone ==
    (CombineReturned
     /\ \E l \in SelectedLabels :
           MappedIn(map_teller, l, df_teller) # MappedIn(map_noemer, l, df_noemer))
    => df_join.kind = "none"

\* C2 as stated: whenever a table is returned, its join-key columns are
\* exactly the selected labels.
C2_KeyColumnsEqualSelection ==
    (CombineReturned /\ IsTable(df_join)) => KeyColumns(df_join) = SelectedLabels

\* C2 as amended: whenever a table is returned, its join-key columns are a
\* non-empty subset of the selected labels, as many as key columns were
\* resolved on each side, and they are exactly the selected labels when every
\* selected label is mapped to a present column on both sides.
C2_KeyColumnsWithinSelection ==
    (CombineReturned /\ IsTable(df_join)) =>
        /\ KeyColumns(df_join) # {}
        /\ KeyColumns(df_join) \subseteq SelectedLabels
        /\ Cardinality(KeyColumns(df_join)) = ResolvedCount(map_teller, df_teller)
        /\ Cardinality(KeyColumns(df_join)) = ResolvedCount(map_noemer, df_noemer)
        /\ (\A l \in SelectedLabels :
                MappedIn(map_teller, l, df_teller) /\ MappedIn(map_noemer, l, df_noemer))
           => KeyColumns(df_join) = SelectedLabels

\* A table is returned although a selected label is unmapped on both sides.
C2_Witness ==
    /\ CombineReturned /\ IsTable(df_join)
    /\ Len(df_join.rows) > 0
    /\ \E l \in SelectedLabels :
          ~MappedIn(map_teller, l, df_teller) /\ ~MappedIn(map_noemer, l, df_noemer)

\* C3: whenever a table is returned, the rename pairs each generic label
\* with the column that each side's mapping assigns to that label, so the
\* key column named L holds the values of the columns mapped to L.
C3_RenamePairsLabelWithItsColumn ==
    (CombineReturned /\ IsTable(df_join)) =>
        \A i \in DOMAIN generieke_labels :
            /\ Get(map_teller, generieke_labels[i][1]) = generieke_labels[i][2]
            /\ Get(map_noemer, generieke_labels[i][1]) = generieke_labels[i][3]

\* C4: when a metric label is unmapped or mapped to a column its table
\* lacks, None is returned and nothing was grouped or joined.
C4_InvalidMetricReturnsNone ==
    (CombineReturned /\ ~MetricsMapped) =>
        /\ df_join = NoTable
        /\ t_grouped = NoTable /\ n_grouped = NoTable
        /\ generieke_labels = <<>>

\* The noemer metric points to a column its file lacks while everything
\* else would allow a join.
C4_Witness ==
    /\ CombineReturned
    /\ MappedIn(map_teller, "aantal_ho_instromers", df_teller)
    /\ map_noemer["aantal_mbo_gediplomeerden"] = StaleCol
    /\ \A l \in ModelledJoinLabels :
          MappedIn(map_teller, l, df_teller) /\ MappedIn(map_noemer, l, df_noemer)
    /\ Len(geselecteerde_labels) = 2
    /\ df_join = NoTable

\* C5: None is returned when no join column was resolved or the two sides
\* resolved different numbers of columns; in every other case with valid
\* metric columns a table is returned.
C5_NoneExactlyOnKeyMismatch ==
    (CombineReturned /\ MetricsMapped) =>
        IF \/ ResolvedCount(map_teller, df_teller) = 0
           \/ ResolvedCount(map_teller, df_teller) # ResolvedCount(map_noemer, df_noemer)
        THEN df_join.kind = "none"
        ELSE IsTable(df_join)

\* C6: a returned table has exactly one row for each key combination found
\* in both sources and no other row; with valid inputs and no shared key
\* combination the result is not None and has no rows.
C6_InnerJoinOnSharedKeys ==
    /\ (CombineReturned /\ IsTable(df_join)) =>
          /\ \A k \in SharedKeys :
                Cardinality({i \in DOMAIN df_join.rows : JoinedKey(df_join.rows[i]) = k}) = 1
          /\ \A i \in DOMAIN df_join.rows : JoinedKey(df_join.rows[i]) \in SharedKeys
    /\ (/\ CombineReturned /\ MetricsMapped
        /\ ResolvedCount(map_teller, df_teller) > 0
        /\ ResolvedCount(map_teller, df_teller) = ResolvedCount(map_noemer, df_noemer)
        /\ SharedKeys = {}) =>
          /\ df_join.kind # "none"
          /\ IsTable(df_join) => df_join.rows = <<>>

\* A returned table with a row, while each side has a key combination the
\* other lacks.
C6_Witness ==
    /\ CombineReturned /\ IsTable(df_join)
    /\ Len(df_join.rows) = 1
    /\ SourceKeys(df_teller, join_cols_teller) \ SharedKeys # {}
    /\ SourceKeys(df_noemer, join_cols_noemer) \ SharedKeys # {}

\* C7: in every row of a returned table teller_doorstromers is the sum of
\* the teller metric over the teller rows with that row's key combination,
\* noemer_gediplomeerden the like sum over the noemer rows, and both are >= 0.
C7_CountsAreGroupSums ==
    (CombineReturned /\ IsTable(df_join)) =>
        \A i \in DOMAIN df_join.rows :
            LET r == df_join.rows[i] IN
            /\ r["teller_doorstromers"] =
                  SumOfRows(df_teller, map_teller["aantal_ho_instromers"],
                            RowsOfKey(df_teller, join_cols_teller, JoinedKey(r)))
            /\ r["noemer_gediplomeerden"] =
                  SumOfRows(df_noemer, map_noemer["aantal_mbo_gediplomeerden"],
                            RowsOfKey(df_noemer, join_cols_noemer, JoinedKey(r)))
            /\ r["teller_doorstromers"] >= 0
            /\ r["noemer_gediplomeerden"] >= 0

\* A joined row that sums two teller rows and two noemer rows.
C7_Witness ==
    /\ CombineReturned /\ IsTable(df_join)
    /\ \E i \in DOMAIN df_join.rows :
          /\ df_join.rows[i]["teller_doorstromers"] = 2
          /\ df_join.rows[i]["noemer_gediplomeerden"] = 1
          /\ Cardinality(RowsOfKey(df_noemer, join_cols_noemer,
                                   JoinedKey(df_join.rows[i]))) = 2

\* C8: in every row of a returned table the percentage is missing exactly
\* when noemer_gediplomeerden is 0 and otherwise percentage * noemer =
\* 100 * teller; a key combination whose summed noemer is 0 keeps its row.
C8_PercentageMissingIffZeroNoemer ==
    (CombineReturned /\ IsTable(df_join)) =>
        /\ \A i \in DOMAIN df_join.rows :
              LET r == df_join.rows[i]
                  pct == r["doorstroompercentage"]
              IN  /\ pct.na <=> r["noemer_gediplomeerden"] = 0
                  /\ ~pct.na =>
                        /\ pct.den > 0
                        /\ pct.num * r["noemer_gediplomeerden"]
                             = 100 * r["teller_doorstromers"] * pct.den
        /\ \A k \in SharedKeys :
              SumOfRows(df_noemer, map_noemer["aantal_mbo_gediplomeerden"],
                        RowsOfKey(df_noemer, join_cols_noemer, k)) = 0
              => \E i \in DOMAIN df_join.rows : JoinedKey(df_join.rows[i]) = k

\* A joined table with a row of zero noemer and positive teller next to a
\* row with a percentage.
C8_Witness ==
    /\ CombineReturned /\ IsTable(df_join)
    /\ \E i, j \in DOMAIN df_join.rows :
          /\ df_join.rows[i]["noemer_gediplomeerden"] = 0
          /\ df_join.rows[i]["teller_doorstromers"] > 0
          /\ df_join.rows[i]["doorstroompercentage"].na
          /\ ~df_join.rows[j]["doorstroompercentage"].na
          /\ df_join.rows[j]["doorstroompercentage"].num = 100

---------------------------------------------------------------------------
(* Properties of apply_filter                                              *)

FilterReturned == pc = "returned" /\ op = "filter"

\* a is b with some rows left out, the others in their order.
IsSubsequence(a, b) ==
    \E f \in [DOMAIN a -> DOMAIN b] :
        /\ \A i \in DOMAIN a : a[i] = b[f[i]]
        /\ \A i, j \in DOMAIN a : i < j => f[i] < f[j]

\* C9: apply_filter returns the table unchanged when the column is absent or
\* nothing is selected; otherwise it returns exactly the rows whose value in
\* the column is selected, so every value of the column in the result is
\* selected.
C9_FilterKeepsSelectedRows ==
    FilterReturned =>
        LET present == \E i \in DOMAIN filter_df.cols : filter_df.cols[i] = kolomnaam
            chosen == {selectie[j] : j \in DOMAIN selectie}
        IN  IF ~present \/ chosen = {}
            THEN filter_ret = filter_df
            ELSE /\ filter_ret.kind = "table"
                 /\ filter_ret.cols = filter_df.cols
                 /\ IsSubsequence(filter_ret.rows, filter_df.rows)
                 /\ \A j \in DOMAIN filter_ret.rows :
                       filter_ret.rows[j][kolomnaam] \in chosen
                 /\ Len(filter_ret.rows) =
                       Cardinality({i \in DOMAIN filter_df.rows :
                                       filter_df.rows[i][kolomnaam] \in chosen})

\* A filter that keeps one row and drops a row with another value and a row
\* with a missing value.
C9_Witness ==
    /\ FilterReturned
    /\ kolomnaam = "jaar"
    /\ Len(selectie) = 1
    /\ Len(filter_ret.rows) = 1
    /\ \E i, j \in DOMAIN filter_df.rows :
          /\ filter_df.rows[i]["jaar"] = NA
          /\ filter_df.rows[j]["jaar"] \notin {NA, selectie[1]}

---------------------------------------------------------------------------
(* Properties of suggest_default                                           *)

SuggestReturned == pc = "returned" /\ op = "suggest"

\* Column col satisfies at least one rule for label lbl.
SatisfiesRule(lbl, col) ==
    LET c == Lower(col) IN
    \/ Contains(Lower(lbl), c)
    \/ lbl = "jaar" /\ (Contains("jaar", c) \/ Contains("peil", c))
    \/ EndsWith(lbl, "_instelling") /\ Contains("brin", c)
    \/ EndsWith(lbl, "_sector") /\ (Contains("sector", c) \/ Contains("domein", c))
    \/ EndsWith(lbl, "_regio") /\ Contains("regio", c)
    \/ StartsWith(lbl, "aantal")
          /\ (Contains("aantal", c) \/ Contains("stud", c) \/ Contains("count", c))

\* C10: suggest_default returns the first column of cols that satisfies a
\* rule, and None exactly when no column satisfies one.
C10_FirstMatchingColumn ==
    SuggestReturned =>
        LET hits == {i \in DOMAIN suggest_cols :
                        SatisfiesRule(suggest_label, suggest_cols[i])}
        IN  IF hits = {} THEN suggest_ret = None
            ELSE /\ suggest_ret # None
                 /\ \E i \in hits : /\ suggest_ret = suggest_cols[i]
                                     /\ \A j \in hits : i <= j

\* Two columns satisfy a rule; the first does so by a keyword, not by
\* holding the label, and only when case is ignored; it is the result.
C10_Witness ==
    /\ SuggestReturned
    /\ Len(suggest_cols) = 2
    /\ SatisfiesRule(suggest_label, suggest_cols[1])
    /\ SatisfiesRule(suggest_label, suggest_cols[2])
    /\ ~Contains(Lower(suggest_label), Lower(suggest_cols[1]))
    /\ suggest_cols[1] # Lower(suggest_cols[1])
    /\ suggest_ret = suggest_cols[1]

---------------------------------------------------------------------------
(* Properties of mapping_ui and the session                                *)

\* Both tables are loaded: the last script run rendered mapping_ui.
Rendered == uploaded["teller"] # NoFile /\ uploaded["noemer"] # NoFile

\* The entry of a label in the session mapping of its table; None when the
\* mapping holds no entry for it.
Entry(ss, key) == Get(SessionMapping(ss, key[1]), key[2])

\* The entry that records the choice v of a selectbox.
EntryFor(v) == IF v = "(geen)" THEN None ELSE v

\* C11: after any sequence of choices and re-renders, the session mapping
\* entry of each label equals the most recent choice the user made for that
\* label, unset when that choice was "(geen)".
C11_EntryIsLatestChoice ==
    \A key \in WidgetKeys :
        keuze[key] # "" => Entry(session_state, key) = EntryFor(keuze[key])

\* C11, second part: a run that follows a choice for one label changes the
\* entry of no other label, of either table.
C11_ChoiceLeavesOtherEntries ==
    [][\A key \in WidgetKeys :
          (keuze'[key] # keuze[key] /\ uploaded' = uploaded) =>
              \A other \in WidgetKeys \ {key} :
                  Entry(session_state', other) = Entry(session_state, other)]_vars

\* C11, third part: a run takes a selectbox's default from suggest_default
\* only for a label that had no entry in the session mapping before it.
C11_SuggestionOnlyWithoutEntry ==
    [][\A key \in WidgetKeys :
          default_from'[key] = "suggestion" =>
              key[2] \notin DOMAIN SessionMapping(session_state, key[1])]_vars

\* C16: after a render of mapping_ui, every entry of both session mappings
\* is unset or a column of the table now loaded for that role, also when
\* the render found an entry that names a column of a replaced file.
C16_EntriesAreLoadedColumns ==
    Rendered =>
        \A key \in WidgetKeys :
            \/ Entry(session_state, key) = None
            \/ Entry(session_state, key) \in Range(uploaded[RoleOf(key[1])])

\* A render that found a stored entry naming a column the loaded table
\* lacks, and left the entry unset.
C16_Witness ==
    /\ Rendered
    /\ \E key \in WidgetKeys :
          /\ default_from[key] = "stale entry"
          /\ key[2] \in DOMAIN SessionMapping(session_state, key[1])
          /\ Entry(session_state, key) = None

---------------------------------------------------------------------------
(* Properties of loading the files                                         *)

\* The script run is over: it reached the end of the loading steps, or an
\* exception ended it.
LoadFinished == op = "load" /\ pc \in {"done", "exception"}

\* The combinations of the loop that read the file without an exception.
Readable(file) ==
    {n \in DOMAIN Combinations :
        read_csv(file, Combinations[n][2], Combinations[n][1]) = "ok"}

\* The run got as far as loading the noemer file.
NoemerReached == pc = "done" \/ reads_noemer # <<>>

\* Loading one side ended without a table, with a message, without an
\* exception and without the rest of the script.
EndsWithoutTable(df, reported) ==
    /\ pc = "done"
    /\ ~IsTable(df)
    /\ reported
    /\ ~rest_run

\* C12: a file that no tried combination of encoding and delimiter reads
\* leaves its side without a table and with a reported message, no
\* exception leaves the loading step, and the mapping and combine steps
\* are not run; for the teller file and for the noemer file.
C12_UnreadableFileEndsWithoutTable ==
    LoadFinished =>
        /\ (file_teller.present /\ Readable(file_teller) = {}) =>
              EndsWithoutTable(df_teller, messages # {})
        /\ (file_noemer.present /\ Readable(file_noemer) = {} /\ NoemerReached) =>
              EndsWithoutTable(df_noemer,
                               "error: noemerbestand niet ingelezen" \in messages)

\* Loading one side read the combinations in the order of the loop up to
\* the first that succeeds, and kept that table.
FirstReadableLoaded(file, reads, df) ==
    IF Readable(file) = {} THEN ~IsTable(df)
    ELSE LET n == Min(Readable(file))
         IN  /\ reads = SubSeq(Combinations, 1, n)
             /\ df = Parsed(Combinations[n][1], Combinations[n][2])

\* C13: for each of the two files, loading tries the encodings crossed
\* with the delimiters in one fixed order, the loaded table is the result
\* of the first combination that parses, and nothing is read after it.
C13_FirstCombinationThatParses ==
    LoadFinished =>
        /\ file_teller.present =>
              FirstReadableLoaded(file_teller, reads_teller, df_teller)
        /\ (file_noemer.present /\ NoemerReached) =>
              FirstReadableLoaded(file_noemer, reads_noemer, df_noemer)

---------------------------------------------------------------------------
(* Properties of the KPI tab and the grouped summaries                     *)

KpiReturned == pc = "returned" /\ op = "kpi"

\* A row of the joined table passes a filter: the table lacks the column,
\* nothing is selected, or the row's value is selected.
Passes(row, col, sel) ==
    \/ col \notin Range(df_join.cols)
    \/ sel = <<>>
    \/ \E j \in DOMAIN sel : row[col] = sel[j]

\* The rows of the joined table that the filters of the KPI tab keep.
KpiRows ==
    {i \in DOMAIN df_join.rows :
        /\ Passes(df_join.rows[i], "jaar", filter_keuze.kpi_jaar)
        /\ Passes(df_join.rows[i], "sector_mbo", filter_keuze.kpi_sector)}

\* The rows of the joined table that the filter of the sector tab keeps.
SectorRows ==
    {i \in DOMAIN df_join.rows :
        Passes(df_join.rows[i], "jaar", filter_keuze.sec_jaar)}

\* pct is 100 * teller / noemer, missing exactly when noemer is 0.
IsRatioOfSums(pct, teller, noemer) ==
    /\ pct.na <=> noemer = 0
    /\ ~pct.na => /\ pct.den > 0
                  /\ pct.num * noemer = 100 * teller * pct.den

\* summary has one row for every value of col among the rows I of the
\* joined table, with the two sums over the rows of that value and the
\* percentage of those sums.
IsSummaryOf(summary, col, I) ==
    /\ IsTable(summary)
    /\ \A i \in I : \E j \in DOMAIN summary.rows :
          summary.rows[j][col] = df_join.rows[i][col]
    /\ \A j, k \in DOMAIN summary.rows :
          summary.rows[j][col] = summary.rows[k][col] => j = k
    /\ \A j \in DOMAIN summary.rows :
          LET r == summary.rows[j]
              G == {i \in I : df_join.rows[i][col] = r[col]}
              teller == SumOfRows(df_join, "teller_doorstromers", G)
              noemer == SumOfRows(df_join, "noemer_gediplomeerden", G)
          IN  /\ G # {}
              /\ r["teller_doorstromers"] = teller
              /\ r["noemer_gediplomeerden"] = noemer
              /\ IsRatioOfSums(r["doorstroompercentage"], teller, noemer)

\* C14: the overall percentage and the percentage of every group of a
\* summary (per year, per sector) is 100 * (sum of teller_doorstromers) /
\* (sum of noemer_gediplomeerden) over the filtered joined rows of the
\* group, missing exactly when that noemer sum is 0 (an empty joined table
\* included); the sums take in the teller counts of rows whose own noemer
\* is 0.
C14_PercentageFromSums ==
    KpiReturned =>
        /\ IsRatioOfSums(totaal_pct,
                         SumOfRows(df_join, "teller_doorstromers", KpiRows),
                         SumOfRows(df_join, "noemer_gediplomeerden", KpiRows))
        /\ JaarLabelAanwezig(geselecteerde_labels, df_join) =>
              IsSummaryOf(df_per_jaar, "jaar", KpiRows)
        /\ "sector_mbo" \in Range(df_join.cols) =>
              IsSummaryOf(df_sec_group, "sector_mbo", SectorRows)

\* A year whose filtered rows are one with noemer 0 and teller 1 and one
\* with noemer 1 and teller 1: the percentage of the year is 200, where the
\* mean of the row percentages is 100.
C14_Witness ==
    /\ KpiReturned
    /\ IsTable(df_per_jaar)
    /\ \E j \in DOMAIN df_per_jaar.rows :
          /\ df_per_jaar.rows[j]["doorstroompercentage"] = Frac(200, 1)
          /\ \E a, b \in KpiRows :
                /\ df_join.rows[a]["jaar"] = df_per_jaar.rows[j]["jaar"]
                /\ df_join.rows[b]["jaar"] = df_per_jaar.rows[j]["jaar"]
                /\ df_join.rows[a]["noemer_gediplomeerden"] = 0
                /\ df_join.rows[a]["teller_doorstromers"] = 1
                /\ df_join.rows[b]["doorstroompercentage"] = Frac(100, 1)
    /\ totaal_pct = Frac(200, 1)

---------------------------------------------------------------------------
(* Properties of regrouping a joined table                                 *)

RegroupReturned == pc = "returned" /\ op = "regroup"

\* The rows of the joined table whose column regroup_label holds
\* regroup_value.
GroupRows ==
    {i \in DOMAIN df_join.rows : df_join.rows[i][regroup_label] = regroup_value}

\* C15: for a returned table J, a join label d and a value g of column d
\* of J, the sums of teller_doorstromers and of noemer_gediplomeerden over
\* the rows of J with d = g, and so the percentage of those sums, equal the
\* sums over all rows of the table that combine_teller_noemer returns, with
\* the same mappings and labels, for the rows of the two files whose column
\* mapped to d holds g.
C15_RegroupingCommutes ==
    (/\ RegroupReturned
     /\ IsTable(df_join)
     /\ regroup_label \in Range(df_join.cols)
     /\ GroupRows # {}) =>
        /\ IsTable(df_join_sub)
        /\ SumOfRows(df_join, "teller_doorstromers", GroupRows)
             = SumOfRows(df_join_sub, "teller_doorstromers", DOMAIN df_join_sub.rows)
        /\ SumOfRows(df_join, "noemer_gediplomeerden", GroupRows)
             = SumOfRows(df_join_sub, "noemer_gediplomeerden", DOMAIN df_join_sub.rows)

====
